---- MODULE Spec2Model ----
(***************************************************************************)
(* DBList (src/pkg/dblist.go): a list that keeps its first maxInMemory      *)
(* items in memory and writes every later item to its own JSON file.        *)
(* The list state is the struct's fields; every method is a sequence of     *)
(* steps of the calling goroutine, cut where the mutex is taken or released *)
(* and where a field that is also read without the mutex is written.        *)
(***************************************************************************)
EXTENDS Integers, Sequences, FiniteSets, TLC

\* ------------------------------------------------------------------ bounds

\* totalCount never exceeds MaxCount: the guard of the calls that insert.
MaxCount == 3
\* NewDBList is called with a maxInMemory in 0..MaxCap.
MaxCap == 2
\* Adds is called with at most MaxBatch items.
MaxBatch == 3
\* The list grows to at most MaxLive items beside the iteration whose end is
\* checked.
MaxLive == 2

\* ------------------------------------------------------------------ inputs

\* The IDs of the items the callers insert (Item{ID int} of the tests).
IDs == {0, 12, 13}
Items == [ID : IDs]
\* The zero value of T (var zero T).
zero == [ID |-> 0]

\* The compare functions the callers pass to Sort: ascending ID (the test's),
\* descending ID, and ascending ID/2, under which 12 and 13 compare equal.
Compares == {"asc", "desc", "half"}
compare(c, a, b) ==
    CASE c = "asc" -> a.ID < b.ID
      [] c = "desc" -> a.ID > b.ID
      [] OTHER -> (a.ID \div 2) < (b.ID \div 2)

\* The goroutines: the callers of the methods and the iterator's producer.
Callers == {"c1", "c2", "c3"}
Producer == "it"
Procs == Callers \cup {Producer}

Nil == "nil"
ErrIndex == "index out of range"
ErrRead == "failed to read from disk"
ErrUnmarshal == "failed to unmarshal data"
ErrMkdir == "failed to create directory"
ErrCreate == "create failed"
ErrWrite == "write failed"
\* A path with no file, and a file with its content.
NoFile == [exists |-> FALSE, data |-> <<>>]
File(data) == [exists |-> TRUE, data |-> data]
Panic == "panic: index out of range"
NoPos == "none"

\* ------------------------------------------------------------------ codec

DigitChars == <<"0", "1", "2", "3", "4", "5", "6", "7", "8", "9">>

\* fmt.Sprintf("%d", n) and json.Marshal of a non-negative int: its decimal digits.
RECURSIVE Digits(_)
Digits(n) ==
    IF n < 10 THEN <<DigitChars[n + 1]>>
    ELSE Digits(n \div 10) \o <<DigitChars[(n % 10) + 1]>>

DigitValue(ch) == CHOOSE d \in 0..9 : DigitChars[d + 1] = ch

\* A JSON number without sign, fraction or exponent: digits, no leading zero.
IsNumber(s) ==
    /\ Len(s) >= 1
    /\ \A k \in 1..Len(s) : \E d \in 0..9 : DigitChars[d + 1] = s[k]
    /\ (Len(s) > 1 => s[1] # "0")

RECURSIVE ParseDigits(_)
ParseDigits(s) ==
    IF Len(s) = 0 THEN 0
    ELSE 10 * ParseDigits(SubSeq(s, 1, Len(s) - 1)) + DigitValue(s[Len(s)])

\* json.Marshal(item) for Item{ID int}: {"ID":<digits>}, as a sequence of tokens.
Marshal(item) == <<"{", "ID", ":">> \o Digits(item.ID) \o <<"}">>

\* json.Unmarshal(data, &item): the item, or an error on anything that is not
\* a complete object (an empty or truncated file among them).
Unmarshal(data) ==
    IF /\ Len(data) >= 5
       /\ data[1] = "{" /\ data[2] = "ID" /\ data[3] = ":"
       /\ data[Len(data)] = "}"
       /\ IsNumber(SubSeq(data, 4, Len(data) - 1))
    THEN [val |-> [ID |-> ParseDigits(SubSeq(data, 4, Len(data) - 1))], err |-> Nil]
    ELSE [val |-> zero, err |-> ErrUnmarshal]

\* filepath.Join(d.diskPath, fmt.Sprintf("%d.json", index)).
diskPath == "dir"
filePathForIndex(index) == <<diskPath, "/">> \o Digits(index) \o <<".json">>

\* The paths the bounded runs can touch.
Paths == {filePathForIndex(p) : p \in 0..(MaxCount + 1)}

\* What a failed file.Write leaves behind: a strict prefix of the data (the
\* empty file os.Create made, or that file with the first byte written).
PartialWrites(data) == {<<>>, SubSeq(data, 1, 1)}

\* ------------------------------------------------------------------- state

VARIABLES
    memoryData,     \* d.memoryData
    maxInMemory,    \* d.maxInMemory
    totalCount,     \* d.totalCount
    sortedIndexes,  \* d.sortedIndexes (0-based positions, 1-based sequence)
    isSorted,       \* d.isSorted
    mutex,          \* d.mutex: the writer holding it and the readers holding it
    disk,           \* the files under d.diskPath: path -> content or NoFile
    pc,             \* where each goroutine is
    op,             \* the method each goroutine is in
    arg,            \* its argument: the item of Add, the index of Get, the compare of Sort
    ret,            \* what the method (or the Add or Get it called) returned
    queue,          \* Adds: its argument items
    tried,          \* Adds: how many of them it has handed to Add
    si,             \* Sort: the insertion sort's outer index i
    reads,          \* how many getFromStorage calls the method has made
    pre,            \* the list state when the method took the mutex (history)
    base,           \* Adds, Iterator: totalCount when it was called (history)
    itI,            \* Iterator: the loop variable i
    cancelled,      \* ctx of the Iterator call is cancelled
    closed,         \* the Iterator's channel is closed
    received,       \* the items the consumer has received from the channel
    logged,         \* the indexes slog.Error was called with
    consuming,      \* the consumer is still receiving from the channel
    atCancel,       \* how many items were received and logged when ctx was cancelled (history)
    inserted,       \* the items of the Add calls that returned nil, in order (history)
    failPos,        \* the position the last Add targeted, if it failed, else none (history)
    itClean,        \* nothing but the iteration has run since Iterator was called (history)
    addedSince,     \* an Add has returned nil since the last Sort returned (history)
    dropped         \* the Sort under way has discarded an error of getFromStorage (history)

listVars == <<memoryData, totalCount, sortedIndexes, isSorted>>
procVars == <<pc, op, arg, ret, queue, tried, si, reads, pre, base>>
iterVars == <<itI, cancelled, closed, received, logged, itClean, consuming, atCancel>>
histVars == <<inserted, failPos, addedSince, dropped>>
vars == <<listVars, maxInMemory, mutex, disk, procVars, iterVars, histVars>>

\* The argument of a method: the item of Add, the index of Get or the compare
\* of Sort; the other fields keep their default.
NoArg == [item |-> zero, index |-> 0, compare |-> "none"]
ItemArg(item) == [NoArg EXCEPT !.item = item]
IndexArg(index) == [NoArg EXCEPT !.index = index]
CompareArg(c) == [NoArg EXCEPT !.compare = c]

NoRet == [val |-> zero, err |-> Nil]
Snapshot == [memoryData |-> memoryData, totalCount |-> totalCount,
             sortedIndexes |-> sortedIndexes, isSorted |-> isSorted]
NoSnapshot == [memoryData |-> <<>>, totalCount |-> 0,
               sortedIndexes |-> <<>>, isSorted |-> TRUE]

\* NewDBList(path, maxInMemory), no method called yet.
Init ==
    /\ maxInMemory \in 0..MaxCap
    /\ memoryData = <<>>
    /\ totalCount = 0
    /\ sortedIndexes = <<>>
    /\ isSorted = TRUE
    /\ mutex = [w |-> NoPos, r |-> {}]
    /\ disk = [p \in Paths |-> NoFile]
    /\ pc = [t \in Procs |-> "idle"]
    /\ op = [t \in Procs |-> "none"]
    /\ arg = [t \in Procs |-> NoArg]
    /\ ret = [t \in Procs |-> NoRet]
    /\ queue = [t \in Procs |-> <<>>]
    /\ tried = [t \in Procs |-> 0]
    /\ si = [t \in Procs |-> 0]
    /\ reads = [t \in Procs |-> 0]
    /\ pre = [t \in Procs |-> NoSnapshot]
    /\ base = [t \in Procs |-> 0]
    /\ itI = 0
    /\ cancelled = FALSE
    /\ closed = FALSE
    /\ received = <<>>
    /\ logged = <<>>
    /\ inserted = <<>>
    /\ failPos = {}
    /\ itClean = TRUE
    /\ consuming = TRUE
    /\ atCancel = <<0, 0>>
    /\ addedSince = FALSE
    /\ dropped = FALSE

\* No goroutine has panicked (a panic ends the process).
Running == \A t \in Procs : pc[t] # "panic"

\* itClean after a step that is not the iteration's: kept before Iterator is
\* called, lost from then on.
Touch == IF pc[Producer] = "idle" THEN itClean ELSE FALSE

\* ------------------------------------------------------------------ mutex

\* d.mutex.Lock(): no writer and no reader holds it.
Lock(t) ==
    /\ mutex.w = NoPos
    /\ mutex.r = {}
    /\ mutex' = [mutex EXCEPT !.w = t]

\* d.mutex.Unlock().
Unlock(t) == mutex' = [mutex EXCEPT !.w = NoPos]

\* d.mutex.RLock(): no writer holds it.
RLock(t) ==
    /\ mutex.w = NoPos
    /\ mutex' = [mutex EXCEPT !.r = @ \cup {t}]

\* d.mutex.RUnlock().
RUnlock(t) == mutex' = [mutex EXCEPT !.r = @ \ {t}]

\* -------------------------------------------------------------------- Add

\* The caller's locals at the start of a method.
Enter(t, o, a) ==
    /\ pc[t] = "idle"
    /\ op' = [op EXCEPT ![t] = o]
    /\ arg' = [arg EXCEPT ![t] = a]
    /\ reads' = [reads EXCEPT ![t] = 0]
    /\ si' = [si EXCEPT ![t] = 0]
    /\ pre' = [pre EXCEPT ![t] = NoSnapshot]

\* A caller calls Add(item).
CallAdd(t, item) ==
    /\ Running
    /\ totalCount < MaxCount
    /\ Enter(t, "Add", ItemArg(item))
    /\ ret' = [ret EXCEPT ![t] = NoRet]
    /\ pc' = [pc EXCEPT ![t] = "add_lock"]
    /\ itClean' = Touch
    /\ UNCHANGED <<listVars, maxInMemory, mutex, disk, queue, tried, base,
                   itI, cancelled, closed, received, logged, consuming, atCancel, histVars>>

\* AddLock without d.mutex.Lock(): Add runs whoever holds the mutex.
AddLock_nolock(t) ==
    /\ Running
    /\ pc[t] = "add_lock"
    /\ pc' = [pc EXCEPT ![t] = "add_store"]
    /\ pre' = [pre EXCEPT ![t] = Snapshot]
    /\ UNCHANGED <<listVars, maxInMemory, mutex, disk, op, arg, ret, queue, tried,
                   si, reads, base, iterVars, histVars>>

\* Add: d.mutex.Lock().
AddLock(t) ==
    /\ Running
    /\ pc[t] = "add_lock"
    /\ Lock(t)
    /\ pc' = [pc EXCEPT ![t] = "add_store"]
    /\ pre' = [pre EXCEPT ![t] = Snapshot]
    /\ UNCHANGED <<listVars, maxInMemory, disk, op, arg, ret, queue, tried, si,
                   reads, base, iterVars, histVars>>

\* HasRoom with <= for <: one item too many stays in memory.
HasRoom_le == Len(memoryData) <= maxInMemory

\* Add: len(d.memoryData) < d.maxInMemory.
HasRoom == Len(memoryData) < maxInMemory

\* Add, the memory branch: d.memoryData = append(d.memoryData, item).
AddMemory(t) ==
    /\ Running
    /\ pc[t] = "add_store"
    /\ HasRoom
    /\ memoryData' = Append(memoryData, arg[t].item)
    /\ pc' = [pc EXCEPT ![t] = "add_index"]
    /\ UNCHANGED <<totalCount, sortedIndexes, isSorted, maxInMemory, mutex, disk,
                   op, arg, ret, queue, tried, si, reads, pre, base, iterVars,
                   histVars>>

\* Add, the disk branch with every call succeeding: MkdirAll, json.Marshal,
\* os.Create (which truncates a file that is there) and file.Write.
AddSpill(t) ==
    /\ Running
    /\ pc[t] = "add_store"
    /\ ~HasRoom
    /\ disk' = [disk EXCEPT ![filePathForIndex(totalCount)] = File(Marshal(arg[t].item))]
    /\ pc' = [pc EXCEPT ![t] = "add_index"]
    /\ UNCHANGED <<listVars, maxInMemory, mutex, op, arg, ret, queue, tried, si,
                   reads, pre, base, iterVars, histVars>>

\* The files after a disk branch that fails with e: MkdirAll or os.Create
\* failing leaves them alone, file.Write failing leaves a truncated file.
FailedFiles(e, index, item) ==
    IF e = ErrWrite
    THEN {[disk EXCEPT ![filePathForIndex(index)] = File(w)] :
             w \in PartialWrites(Marshal(item))}
    ELSE {disk}

\* AddSpillFail with the count taken before the write: a failed Add is counted.
AddSpillFail_counted(t) ==
    /\ Running
    /\ pc[t] = "add_store"
    /\ ~HasRoom
    /\ \E e \in {ErrMkdir, ErrCreate, ErrWrite} :
          /\ disk' \in FailedFiles(e, totalCount, arg[t].item)
          /\ ret' = [ret EXCEPT ![t] = [val |-> zero, err |-> e]]
    /\ failPos' = {totalCount}
    /\ totalCount' = totalCount + 1
    /\ sortedIndexes' = Append(sortedIndexes, totalCount)
    /\ pc' = [pc EXCEPT ![t] = "add_unlock"]
    /\ UNCHANGED <<memoryData, isSorted, maxInMemory, mutex, op, arg, queue, tried,
                   si, reads, pre, base, iterVars, inserted, addedSince, dropped>>

\* Add, the disk branch failing: return err (the deferred Unlock follows).
AddSpillFail(t) ==
    /\ Running
    /\ pc[t] = "add_store"
    /\ ~HasRoom
    /\ \E e \in {ErrMkdir, ErrCreate, ErrWrite} :
          /\ disk' \in FailedFiles(e, totalCount, arg[t].item)
          /\ ret' = [ret EXCEPT ![t] = [val |-> zero, err |-> e]]
    /\ failPos' = {totalCount}
    /\ pc' = [pc EXCEPT ![t] = "add_unlock"]
    /\ UNCHANGED <<listVars, maxInMemory, mutex, op, arg, queue, tried, si, reads,
                   pre, base, iterVars, inserted, addedSince, dropped>>

\* AddIndex appending the count after the increment (d.totalCount + 1).
AddIndex_next(t) ==
    /\ Running
    /\ pc[t] = "add_index"
    /\ sortedIndexes' = Append(sortedIndexes, totalCount + 1)
    /\ pc' = [pc EXCEPT ![t] = "add_count"]
    /\ UNCHANGED <<memoryData, totalCount, isSorted, maxInMemory, mutex, disk, op,
                   arg, ret, queue, tried, si, reads, pre, base, iterVars, histVars>>

\* Add: d.sortedIndexes = append(d.sortedIndexes, d.totalCount).
AddIndex(t) ==
    /\ Running
    /\ pc[t] = "add_index"
    /\ sortedIndexes' = Append(sortedIndexes, totalCount)
    /\ pc' = [pc EXCEPT ![t] = "add_count"]
    /\ UNCHANGED <<memoryData, totalCount, isSorted, maxInMemory, mutex, disk, op,
                   arg, ret, queue, tried, si, reads, pre, base, iterVars, histVars>>

\* Add: d.totalCount++; d.isSorted = false; return nil.
AddCount(t) ==
    /\ Running
    /\ pc[t] = "add_count"
    /\ totalCount' = totalCount + 1
    /\ isSorted' = FALSE
    /\ ret' = [ret EXCEPT ![t] = NoRet]
    /\ failPos' = {}
    /\ pc' = [pc EXCEPT ![t] = "add_unlock"]
    /\ UNCHANGED <<memoryData, sortedIndexes, maxInMemory, mutex, disk, op, arg,
                   queue, tried, si, reads, pre, base, iterVars, inserted, addedSince, dropped>>

\* AfterAdd with the error of Add dropped: Adds goes on after a failure.
AfterAdd_goon(o, e) ==
    IF o = "Adds" THEN "adds_loop" ELSE "done"

\* Where the caller of Add goes on its return: Adds returns the error of a
\* failed Add and goes round its loop after a successful one.
AfterAdd(o, e) ==
    IF o = "Adds" /\ e = Nil THEN "adds_loop" ELSE "done"

\* Add: the deferred d.mutex.Unlock(), and the return to the caller.
AddUnlock(t) ==
    /\ Running
    /\ pc[t] = "add_unlock"
    /\ Unlock(t)
    /\ inserted' = IF ret[t].err = Nil THEN Append(inserted, arg[t].item) ELSE inserted
    /\ addedSince' = (addedSince \/ ret[t].err = Nil)
    /\ pc' = [pc EXCEPT ![t] = AfterAdd(op[t], ret[t].err)]
    /\ UNCHANGED <<listVars, maxInMemory, disk, op, arg, ret, queue, tried, si,
                   reads, pre, base, iterVars, failPos, dropped>>

\* ------------------------------------------------------------------- Adds

Batches == UNION {[1..n -> Items] : n \in 0..MaxBatch}

\* A caller calls Adds(items).
CallAdds(t, items) ==
    /\ Running
    /\ totalCount + Len(items) <= MaxCount
    /\ Enter(t, "Adds", NoArg)
    /\ queue' = [queue EXCEPT ![t] = items]
    /\ tried' = [tried EXCEPT ![t] = 0]
    /\ base' = [base EXCEPT ![t] = totalCount]
    /\ ret' = [ret EXCEPT ![t] = NoRet]
    /\ pc' = [pc EXCEPT ![t] = "adds_loop"]
    /\ itClean' = Touch
    /\ UNCHANGED <<listVars, maxInMemory, mutex, disk, itI, cancelled, closed,
                   received, logged, consuming, atCancel, histVars>>

\* Adds: for _, item := range items { d.Add(item) }, and return nil after the
\* last one.
AddsLoop(t) ==
    /\ Running
    /\ pc[t] = "adds_loop"
    /\ IF tried[t] < Len(queue[t])
       THEN /\ tried' = [tried EXCEPT ![t] = @ + 1]
            /\ arg' = [arg EXCEPT ![t] = ItemArg(queue[t][tried[t] + 1])]
            /\ pc' = [pc EXCEPT ![t] = "add_lock"]
            /\ ret' = ret
       ELSE /\ ret' = [ret EXCEPT ![t] = NoRet]
            /\ pc' = [pc EXCEPT ![t] = "done"]
            /\ UNCHANGED <<tried, arg>>
    /\ UNCHANGED <<listVars, maxInMemory, mutex, disk, op, queue, si, reads, pre,
                   base, iterVars, histVars>>

\* The method has returned and the caller has its result: it goes on.
Finish(t) ==
    /\ Running
    /\ pc[t] = "done"
    /\ pc' = [pc EXCEPT ![t] = "idle"]
    /\ op' = [op EXCEPT ![t] = "none"]
    /\ arg' = [arg EXCEPT ![t] = NoArg]
    /\ ret' = [ret EXCEPT ![t] = NoRet]
    /\ queue' = [queue EXCEPT ![t] = <<>>]
    /\ tried' = [tried EXCEPT ![t] = 0]
    /\ si' = [si EXCEPT ![t] = 0]
    /\ reads' = [reads EXCEPT ![t] = 0]
    /\ pre' = [pre EXCEPT ![t] = NoSnapshot]
    /\ base' = [base EXCEPT ![t] = 0]
    /\ dropped' = FALSE
    /\ UNCHANGED <<listVars, maxInMemory, mutex, disk, iterVars, inserted, failPos,
                   addedSince>>

\* -------------------------------------------------------------------- Get

\* retrieveFromDisk reading the file numbered from the first spilled item.
retrieveFromDisk_relative(index) ==
    LET file == disk[filePathForIndex(index - Len(memoryData))]
    IN  IF ~file.exists THEN [val |-> zero, err |-> ErrRead]
        ELSE Unmarshal(file.data)

\* retrieveFromDisk(index): os.ReadFile of the position's path, then json.Unmarshal.
retrieveFromDisk(index) ==
    LET file == disk[filePathForIndex(index)]
    IN  IF ~file.exists THEN [val |-> zero, err |-> ErrRead]
        ELSE Unmarshal(file.data)

\* getFromStorage(index): from memory below len(d.memoryData), else from disk.
getFromStorage(index) ==
    IF index < Len(memoryData)
    THEN [val |-> memoryData[index + 1], err |-> Nil]
    ELSE retrieveFromDisk(index)

\* Get: index >= len(d.sortedIndexes).
OutOfRange(index) == index >= Len(sortedIndexes)

\* GetResult returning the zero value without the error when out of range.
GetResult_noerr(index) ==
    IF OutOfRange(index) THEN [val |-> zero, err |-> Nil]
    ELSE IF index < 0 THEN [val |-> zero, err |-> Panic]
    ELSE getFromStorage(sortedIndexes[index + 1])

\* The body of Get(index) under the read lock. sortedIndexes[index] with a
\* negative index is a runtime panic.
GetResult(index) ==
    IF OutOfRange(index) THEN [val |-> zero, err |-> ErrIndex]
    ELSE IF index < 0 THEN [val |-> zero, err |-> Panic]
    ELSE getFromStorage(sortedIndexes[index + 1])

\* How many getFromStorage calls Get(index) makes.
GetReads(index) == IF OutOfRange(index) \/ index < 0 THEN 0 ELSE 1

Indexes == (0 - 1)..MaxCount

\* A caller calls Get(index).
CallGet(t, index) ==
    /\ Running
    /\ Enter(t, "Get", IndexArg(index))
    /\ ret' = [ret EXCEPT ![t] = NoRet]
    /\ pc' = [pc EXCEPT ![t] = "get_rlock"]
    /\ UNCHANGED <<listVars, maxInMemory, mutex, disk, queue, tried, base,
                   iterVars, histVars>>

\* GetRLock without d.mutex.RLock(): Get reads whoever holds the mutex.
GetRLock_nolock(t) ==
    /\ Running
    /\ pc[t] = "get_rlock"
    /\ pc' = [pc EXCEPT ![t] = "get_body"]
    /\ pre' = [pre EXCEPT ![t] = Snapshot]
    /\ UNCHANGED <<listVars, maxInMemory, mutex, disk, op, arg, ret, queue, tried,
                   si, reads, base, iterVars, histVars>>

\* Get: d.mutex.RLock().
GetRLock(t) ==
    /\ Running
    /\ pc[t] = "get_rlock"
    /\ RLock(t)
    /\ pc' = [pc EXCEPT ![t] = "get_body"]
    /\ pre' = [pre EXCEPT ![t] = Snapshot]
    /\ UNCHANGED <<listVars, maxInMemory, disk, op, arg, ret, queue, tried, si,
                   reads, base, iterVars, histVars>>

\* Get: the range check, the index lookup and getFromStorage.
GetBody(t) ==
    /\ Running
    /\ pc[t] = "get_body"
    /\ ret' = [ret EXCEPT ![t] = GetResult(arg[t].index)]
    /\ reads' = [reads EXCEPT ![t] = @ + GetReads(arg[t].index)]
    /\ pc' = [pc EXCEPT ![t] = "get_runlock"]
    /\ UNCHANGED <<listVars, maxInMemory, mutex, disk, op, arg, queue, tried, si,
                   pre, base, iterVars, histVars>>

\* Where the caller of Get goes on its return: the Iterator's producer logs a
\* failure and hands a result to the channel; a panic ends the process.
AfterGet(o, e) ==
    IF e = Panic THEN "panic"
    ELSE IF o = "Iterator" THEN (IF e = Nil THEN "it_send" ELSE "it_log")
    ELSE "done"

\* Get: the deferred d.mutex.RUnlock(), and the return to the caller.
GetRUnlock(t) ==
    /\ Running
    /\ pc[t] = "get_runlock"
    /\ RUnlock(t)
    /\ pc' = [pc EXCEPT ![t] = AfterGet(op[t], ret[t].err)]
    /\ UNCHANGED <<listVars, maxInMemory, disk, op, arg, ret, queue, tried, si,
                   reads, pre, base, iterVars, histVars>>

\* ------------------------------------------------------------------- Size

\* Size(): return d.totalCount, read without the mutex.
CallSize(t) ==
    /\ Running
    /\ Enter(t, "Size", NoArg)
    /\ ret' = [ret EXCEPT ![t] = [val |-> totalCount, err |-> Nil]]
    /\ pc' = [pc EXCEPT ![t] = "done"]
    /\ UNCHANGED <<listVars, maxInMemory, mutex, disk, queue, tried, base,
                   iterVars, histVars>>

\* ------------------------------------------------------------------- Sort

Swap(s, i, j) == [s EXCEPT ![i] = s[j], ![j] = s[i]]

\* The less function Sort hands to sort.SliceStable, on the slice as it is
\* (1-based here): both items from storage, the errors dropped, then compare.
less(s, i, j, c) ==
    compare(c, getFromStorage(s[i]).val, getFromStorage(s[j]).val)

\* insertionPass moving the element past its equals too (!less(j-1, j)): not stable.
RECURSIVE insertionPass_unstable(_, _, _)
insertionPass_unstable(s, j, c) ==
    IF j > 1 /\ ~less(s, j - 1, j, c)
    THEN insertionPass_unstable(Swap(s, j, j - 1), j - 1, c)
    ELSE s

\* sort.SliceStable on fewer than 20 elements is one insertion sort; this is
\* its inner loop for the element at j: for ; j > a && less(j, j-1); j-- { swap }.
RECURSIVE insertionPass(_, _, _)
insertionPass(s, j, c) ==
    IF j > 1 /\ less(s, j, j - 1, c)
    THEN insertionPass(Swap(s, j, j - 1), j - 1, c)
    ELSE s

\* The less calls that inner loop makes.
RECURSIVE lessCalls(_, _, _)
lessCalls(s, j, c) ==
    IF j > 1
    THEN 1 + (IF less(s, j, j - 1, c)
              THEN lessCalls(Swap(s, j, j - 1), j - 1, c) ELSE 0)
    ELSE 0

\* Some less call of that inner loop gets an error from getFromStorage, which
\* it assigns to _ (itemA, _ := ...; itemB, _ := ...).
RECURSIVE dropsError(_, _, _)
dropsError(s, j, c) ==
    /\ j > 1
    /\ \/ getFromStorage(s[j]).err # Nil
       \/ getFromStorage(s[j - 1]).err # Nil
       \/ less(s, j, j - 1, c) /\ dropsError(Swap(s, j, j - 1), j - 1, c)

\* A caller calls Sort(compare).
CallSort(t, c) ==
    /\ Running
    /\ Enter(t, "Sort", CompareArg(c))
    /\ ret' = [ret EXCEPT ![t] = NoRet]
    /\ pc' = [pc EXCEPT ![t] = "sort_lock"]
    /\ itClean' = Touch
    /\ UNCHANGED <<listVars, maxInMemory, mutex, disk, queue, tried, base,
                   itI, cancelled, closed, received, logged, consuming, atCancel, histVars>>

\* Sort: d.mutex.Lock().
SortLock(t) ==
    /\ Running
    /\ pc[t] = "sort_lock"
    /\ Lock(t)
    /\ pc' = [pc EXCEPT ![t] = "sort_check"]
    /\ pre' = [pre EXCEPT ![t] = Snapshot]
    /\ UNCHANGED <<listVars, maxInMemory, disk, op, arg, ret, queue, tried, si,
                   reads, base, iterVars, histVars>>

\* SortCheck without the test of d.isSorted: Sort always sorts.
SortCheck_always(t) ==
    /\ Running
    /\ pc[t] = "sort_check"
    /\ pc' = [pc EXCEPT ![t] = "sort_loop"]
    /\ si' = [si EXCEPT ![t] = 1]
    /\ UNCHANGED <<listVars, maxInMemory, mutex, disk, op, arg, ret, queue, tried,
                   reads, pre, base, iterVars, histVars>>

\* Sort: if d.isSorted { return }, else enter sort.SliceStable (i := a + 1).
SortCheck(t) ==
    /\ Running
    /\ pc[t] = "sort_check"
    /\ pc' = [pc EXCEPT ![t] = IF isSorted THEN "sort_unlock" ELSE "sort_loop"]
    /\ si' = [si EXCEPT ![t] = 1]
    /\ UNCHANGED <<listVars, maxInMemory, mutex, disk, op, arg, ret, queue, tried,
                   reads, pre, base, iterVars, histVars>>

\* Sort: one round of the insertion sort's outer loop (i < n), in place.
SortInsert(t) ==
    /\ Running
    /\ pc[t] = "sort_loop"
    /\ si[t] < Len(sortedIndexes)
    /\ sortedIndexes' = insertionPass(sortedIndexes, si[t] + 1, arg[t].compare)
    /\ reads' = [reads EXCEPT ![t] = @ + 2 * lessCalls(sortedIndexes, si[t] + 1, arg[t].compare)]
    /\ si' = [si EXCEPT ![t] = @ + 1]
    /\ dropped' = (dropped \/ dropsError(sortedIndexes, si[t] + 1, arg[t].compare))
    /\ UNCHANGED <<memoryData, totalCount, isSorted, maxInMemory, mutex, disk, pc,
                   op, arg, ret, queue, tried, pre, base, iterVars, inserted,
                   failPos, addedSince>>

\* SortDone moving the first items of the new order into memory: a sort that
\* relocates items instead of permuting the index only.
SortDone_relocate(t) ==
    /\ Running
    /\ pc[t] = "sort_loop"
    /\ si[t] >= Len(sortedIndexes)
    /\ isSorted' = TRUE
    /\ memoryData' = [k \in 1..Len(memoryData) |-> getFromStorage(sortedIndexes[k]).val]
    /\ pc' = [pc EXCEPT ![t] = "sort_unlock"]
    /\ UNCHANGED <<totalCount, sortedIndexes, maxInMemory, mutex, disk,
                   op, arg, ret, queue, tried, si, reads, pre, base, iterVars,
                   histVars>>

\* Sort: sort.SliceStable has returned; d.isSorted = true.
SortDone(t) ==
    /\ Running
    /\ pc[t] = "sort_loop"
    /\ si[t] >= Len(sortedIndexes)
    /\ isSorted' = TRUE
    /\ pc' = [pc EXCEPT ![t] = "sort_unlock"]
    /\ UNCHANGED <<memoryData, totalCount, sortedIndexes, maxInMemory, mutex, disk,
                   op, arg, ret, queue, tried, si, reads, pre, base, iterVars,
                   histVars>>

\* Sort: the deferred d.mutex.Unlock(), and the return to the caller.
SortUnlock(t) ==
    /\ Running
    /\ pc[t] = "sort_unlock"
    /\ Unlock(t)
    /\ pc' = [pc EXCEPT ![t] = "done"]
    /\ addedSince' = FALSE
    /\ UNCHANGED <<listVars, maxInMemory, disk, op, arg, ret, queue, tried, si,
                   reads, pre, base, iterVars, inserted, failPos, dropped>>

\* --------------------------------------------------------------- Iterator

\* Every caller is between two methods.
Quiet == \A t \in Callers : pc[t] = "idle"

\* Iterator(ctx): make the channel and start the producer goroutine (i := 0).
CallIterator ==
    /\ Running
    /\ pc[Producer] = "idle"
    /\ pc' = [pc EXCEPT ![Producer] = "it_cond"]
    /\ op' = [op EXCEPT ![Producer] = "Iterator"]
    /\ itI' = 0
    /\ base' = [base EXCEPT ![Producer] = totalCount]
    /\ itClean' = Quiet
    /\ UNCHANGED <<listVars, maxInMemory, mutex, disk, arg, ret, queue, tried, si,
                   reads, pre, cancelled, closed, received, logged, consuming, atCancel, histVars>>

\* ItCond with <= for <: the producer looks up index totalCount too.
ItCond_le ==
    /\ Running
    /\ pc[Producer] = "it_cond"
    /\ IF itI <= totalCount
       THEN /\ pc' = [pc EXCEPT ![Producer] = "it_ctx"]
            /\ closed' = closed
       ELSE /\ pc' = [pc EXCEPT ![Producer] = "it_done"]
            /\ closed' = TRUE
    /\ UNCHANGED <<listVars, maxInMemory, mutex, disk, op, arg, ret, queue, tried,
                   si, reads, pre, base, itI, cancelled, received, logged, itClean,
                   consuming, atCancel, histVars>>

\* Producer: i < d.totalCount, read without the mutex; past the end the
\* deferred close(ch) runs.
ItCond ==
    /\ Running
    /\ pc[Producer] = "it_cond"
    /\ IF itI < totalCount
       THEN /\ pc' = [pc EXCEPT ![Producer] = "it_ctx"]
            /\ closed' = closed
       ELSE /\ pc' = [pc EXCEPT ![Producer] = "it_done"]
            /\ closed' = TRUE
    /\ UNCHANGED <<listVars, maxInMemory, mutex, disk, op, arg, ret, queue, tried,
                   si, reads, pre, base, itI, cancelled, received, logged, itClean,
                   consuming, atCancel, histVars>>

\* ItCtx without the check of ctx.Err(): the producer looks the index up
\* whether ctx is cancelled or not.
ItCtx_nocheck ==
    /\ Running
    /\ pc[Producer] = "it_ctx"
    /\ pc' = [pc EXCEPT ![Producer] = "get_rlock"]
    /\ closed' = closed
    /\ arg' = [arg EXCEPT ![Producer] = IndexArg(itI)]
    /\ UNCHANGED <<listVars, maxInMemory, mutex, disk, op, ret, queue, tried, si,
                   reads, pre, base, itI, cancelled, received, logged, itClean,
                   consuming, atCancel, histVars>>

\* Producer: if ctx.Err() != nil { return }, else call d.Get(i).
ItCtx ==
    /\ Running
    /\ pc[Producer] = "it_ctx"
    /\ IF cancelled
       THEN /\ pc' = [pc EXCEPT ![Producer] = "it_done"]
            /\ closed' = TRUE
            /\ arg' = arg
       ELSE /\ pc' = [pc EXCEPT ![Producer] = "get_rlock"]
            /\ closed' = closed
            /\ arg' = [arg EXCEPT ![Producer] = IndexArg(itI)]
    /\ UNCHANGED <<listVars, maxInMemory, mutex, disk, op, ret, queue, tried, si,
                   reads, pre, base, itI, cancelled, received, logged, itClean,
                   consuming, atCancel, histVars>>

\* ItLog returning on a failed Get instead of continuing.
ItLog_return ==
    /\ Running
    /\ pc[Producer] = "it_log"
    /\ logged' = Append(logged, itI)
    /\ closed' = TRUE
    /\ pc' = [pc EXCEPT ![Producer] = "it_done"]
    /\ UNCHANGED <<listVars, maxInMemory, mutex, disk, op, arg, ret, queue, tried,
                   si, reads, pre, base, itI, cancelled, received, itClean,
                   consuming, atCancel, histVars>>

\* Producer: Get failed: slog.Error names the index; continue (i++).
ItLog ==
    /\ Running
    /\ pc[Producer] = "it_log"
    /\ logged' = Append(logged, itI)
    /\ itI' = itI + 1
    /\ pc' = [pc EXCEPT ![Producer] = "it_cond"]
    /\ UNCHANGED <<listVars, maxInMemory, mutex, disk, op, arg, ret, queue, tried,
                   si, reads, pre, base, cancelled, closed, received, itClean,
                   consuming, atCancel, histVars>>

\* Producer: select, case ch <- item, which a consumer that is receiving makes
\* ready (select may take it when ctx.Done() is ready too): it has the item; i++.
ItSend ==
    /\ Running
    /\ pc[Producer] = "it_send"
    /\ consuming
    /\ received' = Append(received, ret[Producer].val)
    /\ itI' = itI + 1
    /\ pc' = [pc EXCEPT ![Producer] = "it_cond"]
    /\ UNCHANGED <<listVars, maxInMemory, mutex, disk, op, arg, ret, queue, tried,
                   si, reads, pre, base, cancelled, closed, logged, itClean,
                   consuming, atCancel, histVars>>

\* ItSendCancelled as a plain ch <- item, with no case for ctx.Done(): the
\* producer leaves the hand-off only by handing the item to a consumer.
ItSendCancelled_nocase ==
    /\ Running
    /\ pc[Producer] = "it_send"
    /\ cancelled
    /\ consuming
    /\ received' = Append(received, ret[Producer].val)
    /\ itI' = itI + 1
    /\ pc' = [pc EXCEPT ![Producer] = "it_cond"]
    /\ UNCHANGED <<listVars, maxInMemory, mutex, disk, op, arg, ret, queue, tried,
                   si, reads, pre, base, cancelled, closed, logged, itClean,
                   consuming, atCancel, histVars>>

\* Producer: select, case <-ctx.Done(): return, and the deferred close(ch).
ItSendCancelled ==
    /\ Running
    /\ pc[Producer] = "it_send"
    /\ cancelled
    /\ closed' = TRUE
    /\ pc' = [pc EXCEPT ![Producer] = "it_done"]
    /\ UNCHANGED <<listVars, maxInMemory, mutex, disk, op, arg, ret, queue, tried,
                   si, reads, pre, base, itI, cancelled, received, logged, itClean,
                   consuming, atCancel, histVars>>

\* ------------------------------------------------------------ environment

\* The owner of ctx cancels it while the iteration is under way.
Cancel ==
    /\ Running
    /\ pc[Producer] \notin {"idle", "it_done"}
    /\ ~cancelled
    /\ cancelled' = TRUE
    /\ atCancel' = <<Len(received), Len(logged)>>
    /\ itClean' = FALSE
    /\ UNCHANGED <<listVars, maxInMemory, mutex, disk, procVars, itI, closed,
                   received, logged, consuming, histVars>>

\* The consumer stops receiving before the channel is closed.
ConsumerStops ==
    /\ Running
    /\ pc[Producer] \notin {"idle", "it_done"}
    /\ consuming
    /\ consuming' = FALSE
    /\ UNCHANGED <<listVars, maxInMemory, mutex, disk, procVars, itI, cancelled,
                   closed, received, logged, itClean, atCancel, histVars>>

\* A file of a committed position is deleted out of band.
DeleteFile(p) ==
    /\ Running
    /\ p < totalCount
    /\ disk[filePathForIndex(p)].exists
    /\ disk' = [disk EXCEPT ![filePathForIndex(p)] = NoFile]
    /\ itClean' = Touch
    /\ UNCHANGED <<listVars, maxInMemory, mutex, procVars, itI, cancelled, closed,
                   received, logged, consuming, atCancel, histVars>>

\* --------------------------------------------------------- specifications

\* The steps inside Add, whoever called it.
AddSteps(t) ==
    \/ AddLock(t)
    \/ AddMemory(t)
    \/ AddSpill(t)
    \/ AddSpillFail(t)
    \/ AddIndex(t)
    \/ AddCount(t)
    \/ AddUnlock(t)

GetSteps(t) ==
    \/ GetRLock(t)
    \/ GetBody(t)
    \/ GetRUnlock(t)

SortSteps(t) ==
    \/ SortLock(t)
    \/ SortCheck(t)
    \/ SortInsert(t)
    \/ SortDone(t)
    \/ SortUnlock(t)

\* One caller, calling the methods one after the other; no file is touched
\* but by Add.
Main == "c1"

Next ==
    \/ \E item \in Items : CallAdd(Main, item)
    \/ \E items \in Batches : CallAdds(Main, items)
    \/ AddsLoop(Main)
    \/ AddSteps(Main)
    \/ \E index \in Indexes : CallGet(Main, index)
    \/ GetSteps(Main)
    \/ CallSize(Main)
    \/ \E c \in Compares : CallSort(Main, c)
    \/ SortSteps(Main)
    \/ Finish(Main)

Spec == Init /\ [][Next]_vars

\* Every caller starts one Add on the empty list, all at once.
InitConc ==
    /\ maxInMemory \in 0..MaxCap
    /\ memoryData = <<>>
    /\ totalCount = 0
    /\ sortedIndexes = <<>>
    /\ isSorted = TRUE
    /\ mutex = [w |-> NoPos, r |-> {}]
    /\ disk = [p \in Paths |-> NoFile]
    /\ pc = [t \in Procs |-> IF t \in Callers THEN "add_lock" ELSE "idle"]
    /\ op = [t \in Procs |-> IF t \in Callers THEN "Add" ELSE "none"]
    /\ arg \in [Procs -> {ItemArg(item) : item \in Items}]
    /\ arg[Producer] = NoArg
    /\ ret = [t \in Procs |-> NoRet]
    /\ queue = [t \in Procs |-> <<>>]
    /\ tried = [t \in Procs |-> 0]
    /\ si = [t \in Procs |-> 0]
    /\ reads = [t \in Procs |-> 0]
    /\ pre = [t \in Procs |-> NoSnapshot]
    /\ base = [t \in Procs |-> 0]
    /\ itI = 0
    /\ cancelled = FALSE
    /\ closed = FALSE
    /\ received = <<>>
    /\ logged = <<>>
    /\ inserted = <<>>
    /\ failPos = {}
    /\ itClean = TRUE
    /\ consuming = TRUE
    /\ atCancel = <<0, 0>>
    /\ addedSince = FALSE
    /\ dropped = FALSE

NextConc == \E t \in Callers : AddSteps(t)

SpecConc == InitConc /\ [][NextConc]_vars

\* One caller adding and sorting while files disappear out of band, then one
\* iteration started between two calls, and its ctx.
NextIter ==
    \/ pc[Producer] = "idle" /\ \E item \in Items : CallAdd(Main, item)
    \/ AddSteps(Main)
    \/ pc[Producer] = "idle" /\ \E c \in Compares : CallSort(Main, c)
    \/ SortSteps(Main)
    \/ Finish(Main)
    \/ pc[Producer] = "idle" /\ \E p \in 0..MaxCount : DeleteFile(p)
    \/ Quiet /\ CallIterator
    \/ ItCond
    \/ ItCtx
    \/ GetSteps(Producer)
    \/ ItLog
    \/ ItSend
    \/ ItSendCancelled
    \/ Cancel

SpecIter == Init /\ [][NextIter]_vars

\* One caller adding and sorting while a second one calls Get and Size, at
\* any time.
Reader == "c2"
\* What the caller adds and sorts by while other goroutines run: two items and
\* the two orders of their IDs.
FewItems == {[ID |-> 12], [ID |-> 13]}
FewCompares == {"asc", "desc"}

NextRace ==
    \/ \E item \in FewItems : CallAdd(Main, item)
    \/ AddSteps(Main)
    \/ \E c \in FewCompares : CallSort(Main, c)
    \/ SortSteps(Main)
    \/ Finish(Main)
    \/ \E index \in 0..MaxCount : CallGet(Reader, index)
    \/ GetSteps(Reader)
    \/ CallSize(Reader)
    \/ Finish(Reader)

SpecRace == Init /\ [][NextRace]_vars

\* One caller adding, at any time, while one iteration runs whose ctx is never
\* cancelled and whose consumer keeps receiving; nobody sorts, no file is
\* touched but by Add.
NextGrow ==
    \/ \E item \in Items : CallAdd(Main, item)
    \/ AddSteps(Main)
    \/ Finish(Main)
    \/ CallIterator
    \/ ItCond
    \/ ItCtx
    \/ GetSteps(Producer)
    \/ ItSend

SpecGrow == Init /\ [][NextGrow]_vars

\* One caller adding and sorting, at any time, while one iteration runs whose
\* consumer may stop receiving and whose ctx may be cancelled. Whether the
\* iteration ends does not depend on the items: the caller adds one item, up to
\* MaxLive times, and sorts by one compare.
LiveItems == {[ID |-> 12]}
LiveCompares == {"asc"}

NextLive ==
    \/ totalCount < MaxLive /\ \E item \in LiveItems : CallAdd(Main, item)
    \/ AddSteps(Main)
    \/ \E c \in LiveCompares : CallSort(Main, c)
    \/ SortSteps(Main)
    \/ Finish(Main)
    \/ CallIterator
    \/ ItCond
    \/ ItCtx
    \/ GetSteps(Producer)
    \/ ItSend
    \/ ItSendCancelled
    \/ ConsumerStops
    \/ Cancel

\* What every step of a method or of the producer changes, and the
\* cancellation.
moved == <<pc, si, cancelled>>

\* Fair scheduling: a goroutine that can take a step takes it (the Go
\* scheduler), a method that holds the mutex goes on to release it, RLock gets
\* the mutex if it is free again and again (sync.RWMutex lets the waiting
\* readers in when a writer unlocks), and ctx is cancelled once the consumer
\* has stopped receiving.
FairLive ==
    /\ WF_moved(AddSteps(Main))
    /\ WF_moved(SortSteps(Main))
    /\ WF_moved(ItCond)
    /\ WF_moved(ItCtx)
    /\ SF_moved(GetRLock(Producer))
    /\ WF_moved(GetBody(Producer))
    /\ WF_moved(GetRUnlock(Producer))
    /\ WF_moved(ItSend)
    /\ WF_moved(ItSendCancelled)
    /\ WF_moved(~consuming /\ Cancel)

SpecLive == Init /\ [][NextLive]_vars /\ FairLive

\* ----------------------------------------------------------------- claims

Min(a, b) == IF a < b THEN a ELSE b

\* s holds each of 0..n-1 once.
IsPermutation(s, n) ==
    /\ Len(s) = n
    /\ {s[k] : k \in 1..Len(s)} = 0..(n - 1)

Identity(n) == [k \in 1..n |-> k - 1]

\* The logical index (0-based) of position p in the order s.
IndexOf(s, p) == CHOOSE k \in 0..(Len(s) - 1) : s[k + 1] = p

\* The positions that have a file.
FilePositions == {p \in 0..(MaxCount + 1) : disk[filePathForIndex(p)].exists}

\* No method holds the mutex for writing: the state callers can observe.
Observable == mutex.w = NoPos

\* C1: after N successful Add calls (no failed one outstanding), Size() is N,
\* memory holds min(N, C) items and exactly the positions C..N-1 have a file
\* at their path.
C1_SizeAndTiers ==
    (Observable /\ failPos = {}) =>
        /\ totalCount = Len(inserted)
        /\ Len(memoryData) = Min(Len(inserted), maxInMemory)
        /\ FilePositions = maxInMemory..(Len(inserted) - 1)
        /\ \A t \in Callers :
              (pc[t] = "done" /\ op[t] = "Size") => ret[t].val = Len(inserted)

C1_Witness ==
    /\ Observable /\ failPos = {}
    /\ maxInMemory = 2 /\ Len(inserted) = 3
    /\ sortedIndexes # Identity(3)
    /\ pc[Main] = "done" /\ op[Main] = "Size"

\* C2: Get(i) for i in [0, Size()) returns the item inserted at position
\* sortedIndexes[i] with no error, from memory or decoded from its file; with
\* the order never changed that is the i-th inserted item.
C2_GetReturnsInserted ==
    /\ \A t \in Callers :
          (pc[t] = "done" /\ op[t] = "Get" /\ arg[t].index >= 0 /\ arg[t].index < totalCount) =>
              /\ ret[t] = [val |-> inserted[sortedIndexes[arg[t].index + 1] + 1], err |-> Nil]
              /\ (sortedIndexes = Identity(totalCount) =>
                     ret[t].val = inserted[arg[t].index + 1])
    /\ Observable =>
          \A p \in Len(memoryData)..(totalCount - 1) :
              Unmarshal(disk[filePathForIndex(p)].data) = [val |-> inserted[p + 1], err |-> Nil]

C2_Witness ==
    /\ pc[Main] = "done" /\ op[Main] = "Get"
    /\ totalCount = 3 /\ maxInMemory = 1
    /\ arg[Main].index = 0 /\ sortedIndexes[1] = 2
    /\ ret[Main] = [val |-> [ID |-> 12], err |-> Nil]

\* The callers whose Add returned nil.
Succeeded == {t \in Callers : ret[t].err = Nil}

\* C3: when the concurrent Add calls have all returned, Size() is the number
\* that returned nil, sortedIndexes is a permutation of the positions, each
\* position holds the item of exactly one of them, and with all K successful
\* memory and disk hold K items between them, none twice.
C3_ConcurrentAdds ==
    (\A t \in Callers : pc[t] = "done") =>
        /\ totalCount = Cardinality(Succeeded)
        /\ IsPermutation(sortedIndexes, Cardinality(Succeeded))
        /\ \E f \in [Succeeded -> 0..(totalCount - 1)] :
              /\ \A t, u \in Succeeded : f[t] = f[u] => t = u
              /\ \A t \in Succeeded : getFromStorage(f[t]) = [val |-> arg[t].item, err |-> Nil]
        /\ (Succeeded = Callers =>
              /\ totalCount = Cardinality(Callers)
              /\ Len(memoryData) = Min(totalCount, maxInMemory)
              /\ FilePositions = maxInMemory..(totalCount - 1))

C3_Witness ==
    /\ \A t \in Callers : pc[t] = "done" /\ ret[t].err = Nil
    /\ maxInMemory = 1
    /\ arg["c1"].item.ID = 0 /\ arg["c2"].item.ID = 12 /\ arg["c3"].item.ID = 13
    /\ inserted = <<arg["c3"].item, arg["c1"].item, arg["c2"].item>>

\* C4: when Sort(compare) returns, the logical view is ordered by compare: no
\* later item sorts before an earlier one.
C4_SortOrdersByCompare ==
    \A t \in Callers :
        (pc[t] = "done" /\ op[t] = "Sort") =>
            \A i, j \in 0..(totalCount - 1) :
                i < j => ~compare(arg[t].compare, GetResult(j).val, GetResult(i).val)

\* The items at p and q compare equal under c.
Tie(c, p, q) ==
    /\ ~compare(c, inserted[p + 1], inserted[q + 1])
    /\ ~compare(c, inserted[q + 1], inserted[p + 1])

\* C5 as stated, on the Sort calls that found the list unsorted: items that
\* compare equal appear in insertion order, the smaller position first.
C5_StableByInsertion ==
    \A t \in Callers :
        (pc[t] = "done" /\ op[t] = "Sort" /\ ~pre[t].isSorted) =>
            \A p, q \in 0..(totalCount - 1) :
                (p < q /\ Tie(arg[t].compare, p, q)) =>
                    IndexOf(sortedIndexes, p) < IndexOf(sortedIndexes, q)

\* C5 amended: when Sort(compare) returns, items that compare equal are in
\* the relative order they had in the logical view before the call.
C5_StableByPriorOrder ==
    \A t \in Callers :
        (pc[t] = "done" /\ op[t] = "Sort") =>
            \A p, q \in 0..(totalCount - 1) :
                (/\ Tie(arg[t].compare, p, q)
                 /\ IndexOf(pre[t].sortedIndexes, p) < IndexOf(pre[t].sortedIndexes, q)) =>
                    IndexOf(sortedIndexes, p) < IndexOf(sortedIndexes, q)

C5_Witness ==
    /\ pc[Main] = "done" /\ op[Main] = "Sort" /\ arg[Main].compare = "half"
    /\ ~pre[Main].isSorted
    /\ totalCount = 3
    /\ sortedIndexes # pre[Main].sortedIndexes
    /\ \E p, q \in 0..2 :
          /\ p < q /\ Tie("half", p, q) /\ inserted[p + 1] # inserted[q + 1]
          /\ IndexOf(sortedIndexes, q) < IndexOf(sortedIndexes, p)

\* C6: in every state with no Add or Sort inside its locked section,
\* sortedIndexes has length totalCount and is a permutation of [0, totalCount).
C6_OrderIsPermutation ==
    Observable => IsPermutation(sortedIndexes, totalCount)

C6_Witness ==
    /\ Observable
    /\ totalCount = 2
    /\ sortedIndexes = <<1, 0>>
    /\ failPos = {2}
    /\ disk[filePathForIndex(2)].exists

\* C7: Get(i) with i >= totalCount returns the zero value and the
\* index-out-of-range error, reads no storage and leaves the list as it was.
C7_GetOutOfRange ==
    \A t \in Callers :
        (pc[t] = "done" /\ op[t] = "Get" /\ arg[t].index >= totalCount) =>
            /\ ret[t] = [val |-> zero, err |-> ErrIndex]
            /\ reads[t] = 0
            /\ Snapshot = pre[t]

C7_Witness ==
    /\ pc[Main] = "done" /\ op[Main] = "Get"
    /\ totalCount = 2 /\ maxInMemory = 1
    /\ arg[Main].index = 2
    /\ ret[Main].err = ErrIndex

\* C8: an Add that fails returns its error with memoryData, sortedIndexes,
\* totalCount and isSorted as they were when it took the mutex, and the next
\* successful Add is given the position the failed one had.
C8_AddAllOrNothing ==
    /\ \A t \in Callers :
          (/\ pc[t] \in {"add_unlock", "done"}
           /\ op[t] \in {"Add", "Adds"}
           /\ ret[t].err # Nil) => Snapshot = pre[t]
    /\ \A t \in Callers :
          (pc[t] = "add_count" /\ failPos # {}) =>
              failPos = {sortedIndexes[Len(sortedIndexes)]}
    /\ failPos # {} => failPos = {totalCount}

C8_Witness ==
    /\ pc[Main] = "add_count" /\ op[Main] = "Add"
    /\ failPos = {2}
    /\ maxInMemory = 1
    /\ sortedIndexes = <<1, 0, 2>>

\* The Add calls of an Adds that returned nil.
Committed(t) == IF ret[t].err = Nil THEN tried[t] ELSE tried[t] - 1

\* C9: when Adds returns, the items before the first failing one are
\* committed in input order at the positions that follow the old ones, none
\* after it was handed to Add, and with no failure all of them are committed.
C9_AddsPartialBatch ==
    \A t \in Callers :
        (pc[t] = "done" /\ op[t] = "Adds") =>
            /\ totalCount = base[t] + Committed(t)
            /\ ret[t].err = Nil => Committed(t) = Len(queue[t])
            /\ ret[t].err # Nil => tried[t] <= Len(queue[t])
            /\ \A n \in 1..Committed(t) :
                  /\ sortedIndexes[base[t] + n] = base[t] + n - 1
                  /\ inserted[base[t] + n] = queue[t][n]
                  /\ getFromStorage(base[t] + n - 1) = [val |-> queue[t][n], err |-> Nil]

C9_Witness ==
    /\ pc[Main] = "done" /\ op[Main] = "Adds"
    /\ ret[Main].err # Nil
    /\ Len(queue[Main]) = 3 /\ tried[Main] = 2
    /\ totalCount = 1

\* What a full iteration over the list as it is delivers: the items of the
\* indexes from i on whose Get succeeds, and the indexes whose Get fails.
RECURSIVE Delivered(_)
Delivered(i) ==
    IF i >= totalCount THEN <<>>
    ELSE IF GetResult(i).err = Nil THEN <<GetResult(i).val>> \o Delivered(i + 1)
    ELSE Delivered(i + 1)

RECURSIVE Skipped(_)
Skipped(i) ==
    IF i >= totalCount THEN <<>>
    ELSE IF GetResult(i).err = Nil THEN Skipped(i + 1)
    ELSE <<i>> \o Skipped(i + 1)

\* C10: an iteration with nothing else running and no cancellation ends with
\* the channel closed, the consumer holding Get(i) for the indexes
\* 0..Size()-1 whose lookup succeeds, in ascending order and once each, and
\* one logged error for each index whose lookup fails.
C10_IterationDelivers ==
    (pc[Producer] = "it_done" /\ itClean /\ ~cancelled) =>
        /\ closed
        /\ received = Delivered(0)
        /\ logged = Skipped(0)

C10_Witness ==
    /\ pc[Producer] = "it_done" /\ itClean /\ ~cancelled
    /\ totalCount = 3
    /\ logged = <<1>>
    /\ Len(received) = 2
    /\ sortedIndexes # Identity(3)

\* ---------------------------------------------------------------- C11..C20

\* C11, as stated: once ctx is cancelled the consumer receives nothing more
\* (every item it has was handed off before the cancellation), and the
\* producer's exit closes the channel.
C11_NothingAfterCancel ==
    /\ cancelled => Len(received) = atCancel[1]
    /\ pc[Producer] = "it_done" => closed

\* C11, amended: after the cancellation the producer finishes at most the
\* index it was working on, so the consumer receives at most one more item (or
\* one more failed lookup is logged); its exit closes the channel and logs
\* nothing for the cancellation itself.
C11_AtMostOneAfterCancel ==
    /\ cancelled =>
          /\ Len(received) <= atCancel[1] + 1
          /\ Len(received) + Len(logged) <= atCancel[1] + atCancel[2] + 1
    /\ pc[Producer] = "it_done" => closed
    /\ closed => pc[Producer] = "it_done"

\* ctx was cancelled while the producer held an item, the consumer received it
\* all the same, and the producer has then exited and closed the channel with
\* indexes left.
C11_Witness ==
    /\ cancelled
    /\ pc[Producer] = "it_done"
    /\ closed
    /\ Len(received) = atCancel[1] + 1
    /\ logged = <<>>
    /\ itI < totalCount

\* C12: no method reaches a panic, whatever the list and its argument; a
\* failure comes back as an error value.
C12_NoPanic ==
    \A t \in Procs :
        /\ pc[t] # "panic"
        /\ ret[t].err # Panic

C14_WrittenOnce ==
    [][\A path \in Paths : disk[path].exists => disk'[path] = disk[path]]_vars

\* How many times position p occurs in the order s.
Occurrences(s, p) == Cardinality({k \in 1..Len(s) : s[k] = p})

\* C15: no step of a Sort call changes memoryData, a file or totalCount, so
\* every position keeps its item, and the order it leaves holds the same
\* positions as many times as before: Get(0..Size()-1) reaches the same items.
C15_SortFrame ==
    [][\A t \in Callers :
          (op[t] = "Sort" /\ pc[t] \in {"sort_lock", "sort_check", "sort_loop",
                                       "sort_unlock"}) =>
              /\ memoryData' = memoryData
              /\ disk' = disk
              /\ totalCount' = totalCount
              /\ maxInMemory' = maxInMemory
              /\ \A p \in 0..MaxCount :
                    Occurrences(sortedIndexes', p) = Occurrences(sortedIndexes, p)]_vars

\* A Sort has moved all three positions of a list with one item in memory and
\* two on disk, and is about to return.
C15_Witness ==
    /\ pc[Main] = "sort_unlock"
    /\ op[Main] = "Sort"
    /\ maxInMemory = 1
    /\ totalCount = 3
    /\ pre[Main].sortedIndexes = <<0, 1, 2>>
    /\ sortedIndexes = <<2, 0, 1>>
    /\ reads[Main] > 0

\* The goroutine is inside the section of Add or Sort that holds the mutex
\* for writing.
InWriteSection(t) ==
    pc[t] \in {"add_store", "add_index", "add_count", "add_unlock",
               "sort_check", "sort_loop", "sort_unlock"}

\* C16: while a Get holds the mutex no Add or Sort is partway (none is in its
\* write section), the list is still as it was when Get took the mutex, which
\* is a whole list (every position once, one per successful Add), and what Get
\* returns for an index in range is the item that state's order gives it.
C16_GetSeesWholeState ==
    \A t \in Callers :
        pc[t] \in {"get_body", "get_runlock"} =>
            /\ mutex.w = NoPos
            /\ \A u \in Callers : ~InWriteSection(u)
            /\ Snapshot = pre[t]
            /\ IsPermutation(pre[t].sortedIndexes, pre[t].totalCount)
            /\ Len(inserted) = pre[t].totalCount
            /\ (pc[t] = "get_runlock" /\ arg[t].index \in 0..(pre[t].totalCount - 1)) =>
                   ret[t] = [val |-> inserted[pre[t].sortedIndexes[arg[t].index + 1] + 1],
                             err |-> Nil]

\* A Get has its item from a list of three that needs sorting while the
\* Sort called meanwhile waits for the mutex.
C16_Witness ==
    /\ pc[Reader] = "get_runlock"
    /\ ret[Reader].err = Nil
    /\ pc[Main] = "sort_lock"
    /\ ~isSorted
    /\ totalCount = 3
    /\ \E k \in 1..2 : compare(arg[Main].compare, inserted[k + 1], inserted[k])

\* C17, its last part: no method reads totalCount while another one is inside
\* its write-locked section; here for the read Size makes (a step from idle to
\* done in Size), which happens only when no other goroutine holds the mutex
\* for writing. (Its first part, that the reader holds the mutex, asks more.)
C17_NoReadDuringWrite ==
    [][\A t \in Callers :
          (pc[t] = "idle" /\ pc'[t] = "done" /\ op'[t] = "Size") =>
              mutex.w \in {NoPos, t}]_vars

\* C18: a Sort that has returned (it has no error to return) has had no read
\* of an item fail: it has not gone on with the zero value of an item it
\* could not read.
C18_SortDropsNoError ==
    \A t \in Callers :
        (op[t] = "Sort" /\ pc[t] = "done") => ~dropped

\* C20: with Add calls running beside an uncancelled iteration and no Sort,
\* the order index is never shorter than totalCount, no lookup of the producer
\* fails, the k-th item received is the k-th inserted, and when the channel is
\* closed the consumer has at least the items there were when Iterator was
\* called and at most those there are.
C20_GrowthWithoutGaps ==
    /\ Len(sortedIndexes) >= totalCount
    /\ pc[Producer] # "it_log"
    /\ logged = <<>>
    /\ Len(received) <= Len(inserted)
    /\ \A k \in 1..Len(received) : received[k] = inserted[k]
    /\ pc[Producer] = "it_done" =>
          /\ closed
          /\ base[Producer] <= Len(received)
          /\ Len(received) = itI
          /\ Len(received) <= totalCount

\* The iteration started on one item and ended with three: two Adds, one
\* of another item, ran while it was under way.
C20_Witness ==
    /\ pc[Producer] = "it_done"
    /\ closed
    /\ base[Producer] = 1
    /\ Len(received) = 3
    /\ received[1] # received[3]
    /\ maxInMemory = 2

\* C19: under fair scheduling, with a consumer that keeps receiving or a ctx
\* that is cancelled in the end, every iteration that is started comes to the
\* producer's exit with the channel closed, whatever Add and Sort calls run
\* beside it.
C19_IterationEnds ==
    (pc[Producer] # "idle") ~> (pc[Producer] = "it_done" /\ closed)

\* The producer has exited and closed the channel with indexes left, after
\* the consumer stopped and ctx was cancelled, while a Sort is under way.
C19_Witness ==
    /\ pc[Producer] = "it_done"
    /\ closed
    /\ ~consuming
    /\ cancelled
    /\ itI < totalCount
    /\ pc[Main] = "sort_loop"

====
